---- MODULE Spec2Model ----
(***************************************************************************)
(* GrpcStreamBroadcaster (src/frequenz/client/base/streaming.py): one      *)
(* background pump task that forwards the items of a gRPC stream into a    *)
(* broadcast channel, retries according to a retry strategy, and the       *)
(* start() / new_receiver() / stop() lifecycle calls made by any number of *)
(* asyncio activities of the same event loop.                              *)
(*                                                                         *)
(* One step of the model is one uninterrupted run of an activity between   *)
(* two suspension points (await) of the single-threaded event loop.        *)
(*                                                                         *)
(* Two further, independent parts: the Strategy objects of several         *)
(* broadcasters built from one prototype (SpecCopies), and BaseApiClient   *)
(* with call_stub_method (src/frequenz/client/base/client.py, SpecClient). *)
(***************************************************************************)
EXTENDS Integers, Sequences, FiniteSets, TLC

\* ---------------------------------------------------------------- bounds
MaxStarts == 2      \* pump tasks ever created (the constructor's included)
MaxItems == 2       \* items of one attempt, and messages broadcast in total
MaxLimit == 1       \* largest retry limit of the strategy
MaxReceivers == 2   \* receivers ever created
MaxSize == 1        \* largest maxsize passed to new_receiver()
NumStoppers == 1    \* activities suspended inside stop() at the same time
NumBroadcasters == 2  \* broadcasters built from the same prototype strategy
MaxCalls == 3       \* next_interval() calls on the prototype between resets
MaxChannels == 3    \* gRPC channels ever created by the client
NumCallers == 1     \* activities suspended inside call_stub_method()
NumExiters == 1     \* activities suspended inside __aexit__ / disconnect()

Stoppers == 1..NumStoppers
Intervals == {0, 3}
NoneInterval == -1  \* next_interval() returning None

VARIABLES
    task,       \* self._task: index into tasks
    channel,    \* self._channel: index into chans
    tasks,      \* every pump task ever created by start()
    chans,      \* every Broadcast channel ever created by start()
    strategy,   \* self._retry_strategy
    receivers,  \* every receiver ever returned by new_receiver()
    stoppers,   \* the activities running stop()
    run,        \* calls and log records of the run of the latest start()
    last,       \* the lifecycle call that returned in the last step, if any
    objects,    \* every Strategy object, by identity; the prototype first
    owned,      \* self._retry_strategy of each broadcaster built from it
    consulted,  \* next_interval() calls of each user since its last reset()
    client,     \* BaseApiClient: _server_url, _channel, _stub
    grpc,       \* every gRPC channel ever created for the client
    exiters,    \* the activities running __aexit__ / disconnect()
    callers,    \* the activities running call_stub_method()
    result      \* the client call that returned in the last step, if any

bvars == <<task, channel, tasks, chans, strategy, receivers, stoppers, run,
           last>>

svars == <<objects, owned, consulted>>

cvars == <<client, grpc, exiters, callers, result>>

vars == <<bvars, svars, cvars>>

\* ------------------------------------------------------------ data shapes
\* an item: the run (task) and attempt that produced it, its position in the
\* attempt, and whether transform was applied
NoMsg == [run |-> 0, att |-> 0, idx |-> 0, transformed |-> FALSE]

\* the coroutine object made by asyncio.create_task(self._run()), not yet run
NewTask ==
    [st |-> "created", cancel |-> FALSE, sender |-> 0, cur |-> 0,
     msg |-> NoMsg, error |-> FALSE, outcome |-> "none"]

\* what the run started by the latest start() has done so far, as the tests
\* observe it: stream_method invocations, next_interval() calls, "retrying"
\* warnings (and the delay each one reports), "giving up" errors logged and
\* whether the one logged reports a stream error (not "Stream exhausted");
\* resets counts the reset() calls, the one of that start() included
NewRun ==
    [attempts |-> 0, calls |-> 0, retries |-> 0, delays |-> <<>>,
     giveups |-> 0, failed |-> FALSE, resets |-> 0]

\* channels.Broadcast(name=...)
NewChan == [closed |-> FALSE, sent |-> <<>>]

\* transform: the item, tagged (the tests' _transformer)
Transform(x) == [x EXCEPT !.transformed = TRUE]

\* ---------------------------------------------------------------- strategy
\* Strategy.reset()
reset(s) == [s EXCEPT !.count = 0]

\* Strategy.next_interval(): the counter is incremented, then the limit is
\* evaluated; delay is the interval (base plus jitter) this call computes
next_interval(s, delay) ==
    LET n == s.count + 1
    IN  [strategy |-> [s EXCEPT !.count = n],
         interval |-> IF n > s.limit THEN NoneInterval ELSE delay]

\* Strategy.copy(): same configuration, counter at its initial value
copy(s) == [s EXCEPT !.count = 0]

\* the prototype passed as retry_strategy to every constructor
Prototype == 1

\* who calls the strategies: the owner of the prototype (0), the broadcasters
Users == 0..NumBroadcasters

\* the broadcasters are left aside: no strategy object but the prototype
NoCopies ==
    /\ objects = <<[limit |-> 0, count |-> 0]>>
    /\ owned = [i \in 1..NumBroadcasters |-> 0]
    /\ consulted = [u \in Users |-> 0]

\* ------------------------------------------------------- client: shapes
Urls == {"grpc://a", "grpc://b"}
NoUrl == "none"                    \* server_url=None
NoName == "none"                   \* method_name=None
CallingFunction == "list_things"   \* inspect.stack()[1][3]
Codes == {"UNAVAILABLE"}           \* status codes of an AioRpcError

Callers == 1..NumCallers
Exiters == 1..NumExiters

NoValue == [value |-> 0, transformed |-> FALSE]
Response == [value |-> 1, transformed |-> FALSE]
NoError == [kind |-> "none", server_url |-> NoUrl, operation |-> NoName,
            code |-> "none"]

\* no client call returned in the step that led to this state
NoResult == [op |-> "none", arg |-> NoUrl, transform |-> FALSE, invoked |-> 0,
             error |-> NoError, value |-> NoValue]

\* an activity that is not inside call_stub_method()
NotCalling == [pc |-> "idle", arg |-> NoName, operation |-> NoName,
               transform |-> FALSE]

\* an activity that is not inside __aexit__
NotExiting == [pc |-> "idle", chan |-> 0]

\* the client is left aside
NoClient ==
    /\ client = [server_url |-> NoUrl, channel |-> 0, stub |-> 0]
    /\ grpc = <<>>
    /\ exiters = [e \in Exiters |-> NotExiting]
    /\ callers = [k \in Callers |-> NotCalling]
    /\ result = NoResult

\* ------------------------------------------------------------ broadcaster
Cur ==
    [task |-> task, channel |-> channel, tasks |-> tasks, chans |-> chans,
     strategy |-> strategy, run |-> run]

\* task.done()
TaskDone(b, t) == b.tasks[t].st = "done"

\* variants of start(): without the guard; resetting the strategy before it;
\* without resetting the strategy
start_unguarded(b) ==
    [b EXCEPT !.strategy = reset(@),
              !.run = [NewRun EXCEPT !.resets = 1],
              !.tasks = Append(@, NewTask),
              !.task = Len(b.tasks) + 1,
              !.chans = Append(@, NewChan),
              !.channel = Len(b.chans) + 1]

start_reset_first(b) ==
    IF b.task # 0 /\ ~TaskDone(b, b.task)
    THEN [b EXCEPT !.strategy = reset(@), !.run.resets = @ + 1]
    ELSE start_unguarded(b)

start_without_reset(b) ==
    IF b.task # 0 /\ ~TaskDone(b, b.task)
    THEN b
    ELSE [b EXCEPT !.run = NewRun,
                   !.tasks = Append(@, NewTask),
                   !.task = Len(b.tasks) + 1,
                   !.chans = Append(@, NewChan),
                   !.channel = Len(b.chans) + 1]

\* GrpcStreamBroadcaster.start
start(b) ==
    IF b.task # 0 /\ ~TaskDone(b, b.task)
    THEN b
    ELSE [b EXCEPT !.strategy = reset(@),
                   !.run = [NewRun EXCEPT !.resets = 1],
                   !.tasks = Append(@, NewTask),
                   !.task = Len(b.tasks) + 1,
                   !.chans = Append(@, NewChan),
                   !.channel = Len(b.chans) + 1]

\* an activity that is not inside stop()
Idle == [pc |-> "idle", awaiting |-> 0, at |-> "none", calls |-> 0,
         attempts |-> 0]

\* no lifecycle call returned in the step that led to this state
NoCall == [op |-> "none", startCalls |-> 0, recv |-> 0, raised |-> FALSE]

\* GrpcStreamBroadcaster.__init__ for a strategy copy with the given limit:
\* the fields are set, then self.start() is called
Construct(limit) ==
    start([task |-> 0, channel |-> 0, tasks |-> <<>>, chans |-> <<>>,
           strategy |-> [limit |-> limit, count |-> 0], run |-> NewRun])

Init ==
    \E limit \in 0..MaxLimit :
        LET b == Construct(limit)
        IN  /\ task = b.task
            /\ channel = b.channel
            /\ tasks = b.tasks
            /\ chans = b.chans
            /\ strategy = b.strategy
            /\ run = b.run
            /\ receivers = <<>>
            /\ stoppers = [s \in Stoppers |-> Idle]
            /\ last = NoCall
            /\ NoCopies
            /\ NoClient

SetBroadcaster(b) ==
    /\ task' = b.task
    /\ channel' = b.channel
    /\ tasks' = b.tasks
    /\ chans' = b.chans
    /\ strategy' = b.strategy
    /\ run' = b.run

\* the lifecycle call that returned in this step
Called(op, startCalls, recv, raised) ==
    last' = [op |-> op, startCalls |-> startCalls, recv |-> recv,
             raised |-> raised]

\* a call of start() by some activity
Start ==
    /\ Len(start(Cur).tasks) <= MaxStarts
    /\ SetBroadcaster(start(Cur))
    /\ Called("start", 1, 0, FALSE)
    /\ UNCHANGED <<receivers, stoppers>>
    /\ UNCHANGED <<svars, cvars>>

\* Broadcast.close(): the flag is set at the call; closing twice is allowed
close(b, c) == [b EXCEPT !.chans[c].closed = TRUE]

\* GrpcStreamBroadcaster.new_receiver, up to the creation of the receiver:
\* the broadcaster after the conditional start() and the number of start()
\* calls made
new_receiver(b) ==
    IF b.chans[b.channel].closed
    THEN [b |-> start(b), startCalls |-> 1]
    ELSE [b |-> b, startCalls |-> 0]

\* Broadcast.new_receiver(limit=maxsize) on channel c of broadcaster b
ChannelNewReceiver(b, c, maxsize) ==
    [chan |-> c, limit |-> maxsize, q |-> <<>>, got |-> <<>>,
     from |-> Len(b.chans[c].sent), ended |-> FALSE]

\* a call of new_receiver(maxsize) by some activity
NewReceiver(maxsize) ==
    LET res == new_receiver(Cur)
    IN  /\ Len(receivers) < MaxReceivers
        /\ Len(res.b.tasks) <= MaxStarts
        /\ SetBroadcaster(res.b)
        /\ receivers' = Append(receivers,
                               ChannelNewReceiver(res.b, res.b.channel, maxsize))
        /\ Called("new_receiver", res.startCalls, Len(receivers) + 1, FALSE)
        /\ UNCHANGED stoppers
        /\ UNCHANGED <<svars, cvars>>

\* variant: stop() without its guard
stop_returns_early_never(b) == FALSE

\* stop(): "if not self._task or self._task.done(): return"
stop_returns_early(b) == b.task = 0 \/ TaskDone(b, b.task)

\* a call of stop() by activity s, up to its first suspension:
\* "self._task.cancel()" then "await self._task"; the activities are
\* interchangeable, so the call is made by the first one that is free
StopCall(s) ==
    /\ stoppers[s].pc = "idle"
    /\ \A o \in Stoppers : o < s => stoppers[o].pc # "idle"
    /\ ~stop_returns_early(Cur)
    /\ tasks' = [tasks EXCEPT ![task].cancel = TRUE]
    /\ stoppers' = [stoppers EXCEPT ![s] =
           [pc |-> "await", awaiting |-> task, at |-> tasks[task].st,
            calls |-> run.calls, attempts |-> run.attempts]]
    /\ last' = NoCall
    /\ UNCHANGED <<task, channel, chans, strategy, receivers, run>>
    /\ UNCHANGED <<svars, cvars>>

\* a call of stop() by some activity that returns at once, without suspending
StopEarly ==
    /\ stop_returns_early(Cur)
    /\ Called("stop", 0, 0, FALSE)
    /\ UNCHANGED <<task, channel, tasks, chans, strategy, receivers, stoppers,
                   run>>
    /\ UNCHANGED <<svars, cvars>>

\* stop() after "await self._task" of the cancelled task t:
\* "await self._channel.close()"
stop_close(b, t) == close(b, b.channel)

\* variant: stop() goes on without awaiting the task
stop_resumes_at_once(b, t) == TRUE

\* stop(): "await self._task" returns or raises only once task t is done
stop_may_resume(b, t) == TaskDone(b, t)

\* stop() resumed by the event loop once the awaited task is done; only
\* CancelledError is swallowed
StopResume(s) ==
    /\ stoppers[s].pc = "await"
    /\ stop_may_resume(Cur, stoppers[s].awaiting)
    /\ IF tasks[stoppers[s].awaiting].outcome = "cancelled"
       THEN /\ SetBroadcaster(stop_close(Cur, stoppers[s].awaiting))
            /\ Called("stop", 0, 0, FALSE)
       ELSE /\ Called("stop", 0, 0, TRUE)
            /\ UNCHANGED <<task, channel, tasks, chans, strategy, run>>
    /\ stoppers' = [stoppers EXCEPT ![s] = Idle]
    /\ UNCHANGED receivers
    /\ UNCHANGED <<svars, cvars>>

\* ------------------------------------------------------------------- pump
\* the task is done: the frame of _run (sender, call, msg, error) is gone
Finished(p, outcome) ==
    [p EXCEPT !.st = "done", !.outcome = outcome, !.cancel = FALSE,
              !.sender = 0, !.cur = 0, !.msg = NoMsg, !.error = FALSE]

\* variant: the cancellation request is not seen by the task
Runnable_ignoring_cancel(t) == tasks[t].st # "done"

\* the event loop may resume task t normally: it is not done and no
\* cancellation was requested by "self._task.cancel()"
Runnable(t) == tasks[t].st # "done" /\ ~tasks[t].cancel

\* _run: "error = None", "call = self._stream_method()", first __anext__
begin_attempt(p) == [p EXCEPT !.cur = 0, !.error = FALSE, !.st = "next"]

\* variant: the sender is taken from the channel of the constructor's start()
bound_channel_first(b) == 1

\* _run: "sender = self._channel.new_sender()": the channel the pump sends to
\* is the one self._channel names when the task takes its first step
bound_channel(b) == b.channel

\* the first step of the task: "sender = self._channel.new_sender()"
PumpStart(t) ==
    /\ Runnable(t)
    /\ tasks[t].st = "created"
    /\ tasks' = [tasks EXCEPT ![t] =
           begin_attempt([@ EXCEPT !.sender = bound_channel(Cur)])]
    /\ run' = [run EXCEPT !.attempts = @ + 1]
    /\ last' = NoCall
    /\ UNCHANGED <<task, channel, chans, strategy, receivers, stoppers>>
    /\ UNCHANGED <<svars, cvars>>

\* every receiver of channel c has room for one more message
CanAccept(c) ==
    \A r \in DOMAIN receivers :
        receivers[r].chan = c => Len(receivers[r].q) < receivers[r].limit

\* sender.send(m) by task t whose record is p (already advanced). The channel
\* is the one of the design document: bounded buffer per receiver, the sender
\* is suspended until every receiver has room. raise says what a send on a
\* closed channel does, which the document leaves open: raise (the exception
\* is not AioRpcError, so it ends the task) or drop the message
Send(t, p, m, raise) ==
    LET c == p.sender
    IN  IF chans[c].closed
        THEN /\ tasks' = [tasks EXCEPT ![t] =
                    IF raise
                    THEN Finished(p, "crashed")
                    ELSE [p EXCEPT !.st = "next", !.msg = NoMsg]]
             /\ UNCHANGED <<chans, receivers>>
        ELSE IF CanAccept(c)
        THEN /\ tasks' = [tasks EXCEPT ![t] = [p EXCEPT !.st = "next",
                                                        !.msg = NoMsg]]
             /\ chans' = [chans EXCEPT ![c].sent = Append(@, m)]
             /\ receivers' = [r \in DOMAIN receivers |->
                    IF receivers[r].chan = c
                    THEN [receivers[r] EXCEPT !.q = Append(@, m)]
                    ELSE receivers[r]]
        ELSE /\ tasks' = [tasks EXCEPT ![t] = [p EXCEPT !.st = "send",
                                                        !.msg = m]]
             /\ UNCHANGED <<chans, receivers>>

\* variant: the item is sent as received
forward_raw(x) == x

\* _run: "await sender.send(self._transform(msg))", the message sent for x
forward(x) == Transform(x)

RECURSIVE TotalSent(_)
\* messages broadcast so far on the channels 1..n
TotalSent(n) == IF n = 0 THEN 0 ELSE Len(chans[n].sent) + TotalSent(n - 1)

\* the stream yields its next item: "async for msg in call: await sender.send"
PumpItem(t) ==
    /\ Runnable(t)
    /\ tasks[t].st = "next"
    /\ tasks[t].cur < MaxItems
    /\ TotalSent(Len(chans)) < MaxItems
    /\ \E raise \in BOOLEAN :
           Send(t, [tasks[t] EXCEPT !.cur = @ + 1],
                forward([run |-> t, att |-> run.attempts,
                         idx |-> tasks[t].cur, transformed |-> FALSE]),
                raise)
    /\ last' = NoCall
    /\ UNCHANGED <<task, channel, strategy, stoppers, run>>
    /\ UNCHANGED <<svars, cvars>>

\* a send suspended on a full receiver is resumed (room, or channel closed)
PumpSendResume(t) ==
    /\ Runnable(t)
    /\ tasks[t].st = "send"
    /\ chans[tasks[t].sender].closed \/ CanAccept(tasks[t].sender)
    /\ \E raise \in BOOLEAN : Send(t, tasks[t], tasks[t].msg, raise)
    /\ last' = NoCall
    /\ UNCHANGED <<task, channel, strategy, stoppers, run>>
    /\ UNCHANGED <<svars, cvars>>

\* variants: "if not interval"; "if interval is not None"; no retry at all
is_terminal_falsy(interval) == interval = NoneInterval \/ interval = 0

is_terminal_always(interval) == TRUE

is_terminal_inverted(interval) == interval # NoneInterval

\* _run: "if interval is None"
is_terminal(interval) == interval = NoneInterval

\* variant: give up without closing the channel
giveup_without_close(b) == b

\* _run, "if interval is None": "await self._channel.close()" before break
giveup_close(b) == close(b, b.channel)

\* variant: no except clause around the stream
handles_nothing(err) == FALSE

\* "except grpc.aio.AioRpcError as err": the error raised by the stream (an
\* AioRpcError whenever err is TRUE) is handled inside _run
handles(err) == TRUE

\* the stream ends, cleanly or with AioRpcError: the strategy is consulted,
\* then either give up (close self._channel, break) or sleep
PumpStreamEnd(t) ==
    /\ Runnable(t)
    /\ tasks[t].st = "next"
    /\ \E err \in BOOLEAN, delay \in Intervals :
        LET res == next_interval(strategy, delay)
            p == [tasks[t] EXCEPT !.error = err]
        IN  IF err /\ ~handles(err)
            THEN /\ tasks' = [tasks EXCEPT ![t] = Finished(p, "crashed")]
                 /\ UNCHANGED <<chans, strategy, run>>
            ELSE
            /\ strategy' = res.strategy
            /\ IF is_terminal(res.interval)
               THEN /\ tasks' = [tasks EXCEPT ![t] = Finished(p, "gaveup")]
                    /\ run' = [run EXCEPT !.calls = @ + 1, !.giveups = @ + 1,
                                          !.failed = err]
                    /\ chans' = giveup_close(Cur).chans
               ELSE /\ tasks' = [tasks EXCEPT ![t] = [p EXCEPT !.st = "sleep"]]
                    /\ run' = [run EXCEPT !.calls = @ + 1, !.retries = @ + 1,
                                          !.delays = Append(@, res.interval)]
                    /\ UNCHANGED chans
    /\ last' = NoCall
    /\ UNCHANGED <<task, channel, receivers, stoppers>>
    /\ UNCHANGED <<svars, cvars>>

\* "await asyncio.sleep(interval)" is over: next iteration of "while True"
PumpWake(t) ==
    /\ Runnable(t)
    /\ tasks[t].st = "sleep"
    /\ tasks' = [tasks EXCEPT ![t] = begin_attempt(@)]
    /\ run' = [run EXCEPT !.attempts = @ + 1]
    /\ last' = NoCall
    /\ UNCHANGED <<task, channel, chans, strategy, receivers, stoppers>>
    /\ UNCHANGED <<svars, cvars>>

\* variant: _run catches CancelledError and goes on
PumpCancelled_swallowed(t) ==
    /\ tasks[t].st # "done"
    /\ tasks[t].cancel
    /\ tasks' = [tasks EXCEPT ![t].cancel = FALSE]
    /\ last' = NoCall
    /\ UNCHANGED <<task, channel, chans, strategy, receivers, stoppers, run>>
    /\ UNCHANGED <<svars, cvars>>

\* the next step of a task whose cancellation was requested: CancelledError
\* is thrown at its suspension point and is not caught by _run
PumpCancelled(t) ==
    /\ tasks[t].st # "done"
    /\ tasks[t].cancel
    /\ tasks' = [tasks EXCEPT ![t] = Finished(@, "cancelled")]
    /\ last' = NoCall
    /\ UNCHANGED <<task, channel, chans, strategy, receivers, stoppers, run>>
    /\ UNCHANGED <<svars, cvars>>

\* -------------------------------------------------------------- consumers
\* a consumer takes the next buffered message of receiver r
Recv(r) ==
    /\ receivers[r].q # <<>>
    /\ receivers' = [receivers EXCEPT ![r].got = Append(@, Head(receivers[r].q)),
                                      ![r].q = Tail(@)]
    /\ last' = NoCall
    /\ UNCHANGED <<task, channel, tasks, chans, strategy, stoppers, run>>
    /\ UNCHANGED <<svars, cvars>>

\* a consumer of receiver r reaches the end of the stream: buffer drained and
\* channel closed
RecvEnd(r) ==
    /\ receivers[r].q = <<>>
    /\ chans[receivers[r].chan].closed
    /\ ~receivers[r].ended
    /\ receivers' = [receivers EXCEPT ![r].ended = TRUE]
    /\ last' = NoCall
    /\ UNCHANGED <<task, channel, tasks, chans, strategy, stoppers, run>>
    /\ UNCHANGED <<svars, cvars>>

Next ==
    \/ Start
    \/ \E maxsize \in 1..MaxSize : NewReceiver(maxsize)
    \/ \E s \in Stoppers : StopCall(s)
    \/ StopEarly
    \/ \E s \in Stoppers : StopResume(s)
    \/ \E t \in DOMAIN tasks : PumpStart(t)
    \/ \E t \in DOMAIN tasks : PumpItem(t)
    \/ \E t \in DOMAIN tasks : PumpSendResume(t)
    \/ \E t \in DOMAIN tasks : PumpStreamEnd(t)
    \/ \E t \in DOMAIN tasks : PumpWake(t)
    \/ \E t \in DOMAIN tasks : PumpCancelled(t)
    \/ \E r \in DOMAIN receivers : Recv(r)
    \/ \E r \in DOMAIN receivers : RecvEnd(r)

Spec == Init /\ [][Next]_vars

\* the event loop runs every ready callback: a task whose cancellation was
\* requested gets its next step, and a stop() whose awaited task is done is
\* resumed
SpecStop ==
    /\ Spec
    /\ \A t \in 1..MaxStarts :
           WF_vars(t \in DOMAIN tasks /\ PumpCancelled(t))
    /\ \A s \in Stoppers : WF_vars(StopResume(s))

\* the event loop runs the pump whenever it can go on, every attempt of the
\* stream comes to an end, and every consumer keeps iterating its receiver
SpecFair ==
    /\ Spec
    /\ \A t \in 1..MaxStarts :
        /\ WF_vars(t \in DOMAIN tasks /\ PumpStart(t))
        /\ WF_vars(t \in DOMAIN tasks /\ PumpSendResume(t))
        /\ WF_vars(t \in DOMAIN tasks /\ PumpStreamEnd(t))
        /\ WF_vars(t \in DOMAIN tasks /\ PumpWake(t))
    /\ \A r \in 1..MaxReceivers :
        /\ WF_vars(r \in DOMAIN receivers /\ Recv(r))
        /\ WF_vars(r \in DOMAIN receivers /\ RecvEnd(r))

\* -------------------------------------------- strategies of N broadcasters
\* variant: the constructor keeps the object it was given
own_strategy_shared(objs, retry_strategy) ==
    [objects |-> objs, ref |-> retry_strategy]

\* __init__: "self._retry_strategy = ... retry_strategy.copy()": the objects
\* after the call and the identity of the one the broadcaster keeps
own_strategy(objs, retry_strategy) ==
    [objects |-> Append(objs, copy(objs[retry_strategy])),
     ref |-> Len(objs) + 1]

\* no broadcaster is modelled in detail: only its strategy calls are
NoBroadcaster ==
    /\ task = 0
    /\ channel = 0
    /\ tasks = <<>>
    /\ chans = <<>>
    /\ strategy = [limit |-> 0, count |-> 0]
    /\ run = NewRun
    /\ receivers = <<>>
    /\ stoppers = [s \in Stoppers |-> Idle]
    /\ last = NoCall

InitCopies ==
    /\ NoBroadcaster
    /\ NoClient
    /\ \E limit \in 0..MaxLimit :
           objects = <<[limit |-> limit, count |-> 0]>>
    /\ owned = [i \in 1..NumBroadcasters |-> 0]
    /\ consulted = [u \in Users |-> 0]

\* GrpcStreamBroadcaster(..., retry_strategy=prototype) for broadcaster i:
\* the strategy is taken, then start() resets it
ConstructBroadcaster(i) ==
    /\ owned[i] = 0
    /\ LET res == own_strategy(objects, Prototype)
       IN  /\ objects' = [res.objects EXCEPT ![res.ref] = reset(@)]
           /\ owned' = [owned EXCEPT ![i] = res.ref]
    /\ consulted' = [consulted EXCEPT ![i] = 0]
    /\ UNCHANGED <<bvars, cvars>>

\* the pump of broadcaster i consults its strategy at the end of an attempt;
\* it makes no further call once it was told to give up
BroadcasterNextInterval(i) ==
    /\ owned[i] # 0
    /\ consulted[i] <= objects[owned[i]].limit
    /\ \E delay \in Intervals :
           objects' = [objects EXCEPT
                          ![owned[i]] = next_interval(@, delay).strategy]
    /\ consulted' = [consulted EXCEPT ![i] = @ + 1]
    /\ UNCHANGED <<owned, bvars, cvars>>

\* broadcaster i is started again after its pump ended: start() resets
BroadcasterRestart(i) ==
    /\ owned[i] # 0
    /\ objects' = [objects EXCEPT ![owned[i]] = reset(@)]
    /\ consulted' = [consulted EXCEPT ![i] = 0]
    /\ UNCHANGED <<owned, bvars, cvars>>

\* the owner of the prototype uses it for its own purposes
PrototypeNextInterval ==
    /\ consulted[0] < MaxCalls
    /\ \E delay \in Intervals :
           objects' = [objects EXCEPT
                          ![Prototype] = next_interval(@, delay).strategy]
    /\ consulted' = [consulted EXCEPT ![0] = @ + 1]
    /\ UNCHANGED <<owned, bvars, cvars>>

PrototypeReset ==
    /\ objects' = [objects EXCEPT ![Prototype] = reset(@)]
    /\ consulted' = [consulted EXCEPT ![0] = 0]
    /\ UNCHANGED <<owned, bvars, cvars>>

NextCopies ==
    \/ \E i \in 1..NumBroadcasters : ConstructBroadcaster(i)
    \/ \E i \in 1..NumBroadcasters : BroadcasterNextInterval(i)
    \/ \E i \in 1..NumBroadcasters : BroadcasterRestart(i)
    \/ PrototypeNextInterval
    \/ PrototypeReset

SpecCopies == InitCopies /\ [][NextCopies]_vars

\* ------------------------------------------------------------- API client
\* parse_grpc_uri(uri, defaults): a new channel to that server
parse_grpc_uri(uri) == [url |-> uri, closed |-> FALSE]

\* self._create_stub(channel): the stub is known by the channel it wraps
create_stub(ch) == ch

\* ClientNotConnected(server_url=..., operation=...)
ClientNotConnected(server_url, operation) ==
    [kind |-> "ClientNotConnected", server_url |-> server_url,
     operation |-> operation, code |-> "none"]

\* ApiClientError.from_grpc_error(server_url=..., operation=..., grpc_error=...)
from_grpc_error(server_url, operation, code) ==
    [kind |-> "GrpcError", server_url |-> server_url, operation |-> operation,
     code |-> code]

\* BaseApiClient.is_connected
is_connected(c) == c.channel # 0

\* connect(): "self._channel = parse_grpc_uri(...)", "self._stub = ..."
open_channel(c, g) ==
    [client |-> [c EXCEPT !.channel = Len(g) + 1,
                          !.stub = create_stub(Len(g) + 1)],
     grpc |-> Append(g, parse_grpc_uri(c.server_url))]

\* variant: connect() without "elif self.is_connected: return"
connect_always(c, g, server_url) ==
    IF server_url # NoUrl /\ server_url # c.server_url
    THEN open_channel([c EXCEPT !.server_url = server_url], g)
    ELSE open_channel(c, g)

\* BaseApiClient.connect(server_url) on client c, g being the channels
connect(c, g, server_url) ==
    IF server_url # NoUrl /\ server_url # c.server_url
    THEN open_channel([c EXCEPT !.server_url = server_url], g)
    ELSE IF is_connected(c)
    THEN [client |-> c, grpc |-> g]
    ELSE open_channel(c, g)

\* BaseApiClient.__init__(server_url, create_stub, connect=conn)
BaseApiClient(server_url, conn) ==
    LET c == [server_url |-> server_url, channel |-> 0, stub |-> 0]
    IN  IF conn
        THEN connect(c, <<>>, server_url)
        ELSE [client |-> c, grpc |-> <<>>]

InitClient ==
    /\ NoBroadcaster
    /\ NoCopies
    /\ \E server_url \in Urls, conn \in BOOLEAN :
           LET res == BaseApiClient(server_url, conn)
           IN  client = res.client /\ grpc = res.grpc
    /\ exiters = [e \in Exiters |-> NotExiting]
    /\ callers = [k \in Callers |-> NotCalling]
    /\ result = NoResult

\* the client call that returned in this step
Returned(op, arg, transform, invoked, error, value) ==
    result' = [op |-> op, arg |-> arg, transform |-> transform,
               invoked |-> invoked, error |-> error, value |-> value]

\* a call of connect(server_url) by some activity
Connect(server_url) ==
    LET res == connect(client, grpc, server_url)
    IN  /\ Len(res.grpc) <= MaxChannels
        /\ client' = res.client
        /\ grpc' = res.grpc
        /\ Returned("connect", server_url, FALSE, 0, NoError, NoValue)
        /\ UNCHANGED <<exiters, callers, bvars, svars>>

\* __aenter__: "self.connect()", "return self"
Enter ==
    LET res == connect(client, grpc, NoUrl)
    IN  /\ Len(res.grpc) <= MaxChannels
        /\ client' = res.client
        /\ grpc' = res.grpc
        /\ Returned("aenter", NoUrl, FALSE, 0, NoError, NoValue)
        /\ UNCHANGED <<exiters, callers, bvars, svars>>

\* disconnect() / __aexit__ on a client without channel: "return None"
ExitEarly ==
    /\ ~is_connected(client)
    /\ Returned("disconnect", NoUrl, FALSE, 0, NoError, NoValue)
    /\ UNCHANGED <<client, grpc, exiters, callers, bvars, svars>>

\* disconnect() / __aexit__ by activity e up to its suspension:
\* "await self._channel.__aexit__(...)" starts closing the channel
ExitCall(e) ==
    /\ exiters[e].pc = "idle"
    /\ \A o \in Exiters : o < e => exiters[o].pc # "idle"
    /\ is_connected(client)
    /\ grpc' = [grpc EXCEPT ![client.channel].closed = TRUE]
    /\ exiters' = [exiters EXCEPT ![e] = [pc |-> "await",
                                          chan |-> client.channel]]
    /\ result' = NoResult
    /\ UNCHANGED <<client, callers, bvars, svars>>

\* __aexit__ resumed: "self._channel = None", "self._stub = None"
ExitResume(e) ==
    /\ exiters[e].pc = "await"
    /\ client' = [client EXCEPT !.channel = 0, !.stub = 0]
    /\ exiters' = [exiters EXCEPT ![e] = NotExiting]
    /\ Returned("disconnect", NoUrl, FALSE, 0, NoError, NoValue)
    /\ UNCHANGED <<grpc, callers, bvars, svars>>

\* call_stub_method: "if method_name is None: method_name = inspect.stack()..."
operation_name(method_name) ==
    IF method_name = NoName THEN CallingFunction ELSE method_name

\* variant: call_stub_method without the connectivity check
call_refused_never(c) == FALSE

\* call_stub_method: "if not client.is_connected: raise ClientNotConnected"
call_refused(c) == ~is_connected(c)

\* call_stub_method(client, stub_method, method_name=..., transform=...) on
\* a client that is refused: the exception is raised at once
CallRefused(method_name, transform) ==
    /\ call_refused(client)
    /\ Returned("call", method_name, transform, 0,
                ClientNotConnected(client.server_url,
                                   operation_name(method_name)), NoValue)
    /\ UNCHANGED <<client, grpc, exiters, callers, bvars, svars>>

\* call_stub_method by activity k up to "await stub_method()"
CallStub(k, method_name, transform) ==
    /\ callers[k].pc = "idle"
    /\ \A o \in Callers : o < k => callers[o].pc # "idle"
    /\ ~call_refused(client)
    /\ callers' = [callers EXCEPT ![k] =
           [pc |-> "await", arg |-> method_name,
            operation |-> operation_name(method_name),
            transform |-> transform]]
    /\ result' = NoResult
    /\ UNCHANGED <<client, grpc, exiters, bvars, svars>>

\* variant: no except clause around the awaited stub method
call_outcome_unwrapped(c, call, outcome, response) ==
    IF outcome # "ok"
    THEN [error |-> [kind |-> "AioRpcError", server_url |-> NoUrl,
                     operation |-> NoName, code |-> outcome],
          value |-> NoValue]
    ELSE [error |-> NoError,
          value |-> IF call.transform THEN Transform(response) ELSE response]

\* call_stub_method after "await stub_method()": outcome is "ok" or the
\* status code of the AioRpcError raised
call_outcome(c, call, outcome, response) ==
    IF outcome # "ok"
    THEN [error |-> from_grpc_error(c.server_url, call.operation, outcome),
          value |-> NoValue]
    ELSE [error |-> NoError,
          value |-> IF call.transform THEN Transform(response) ELSE response]

\* the awaited stub method of activity k completes; call_stub_method returns
\* or raises
CallReturn(k) ==
    /\ callers[k].pc = "await"
    /\ \E outcome \in {"ok"} \cup Codes :
           LET res == call_outcome(client, callers[k], outcome, Response)
           IN  Returned("call", callers[k].arg, callers[k].transform, 1,
                        res.error, res.value)
    /\ callers' = [callers EXCEPT ![k] = NotCalling]
    /\ UNCHANGED <<client, grpc, exiters, bvars, svars>>

NextClient ==
    \/ \E server_url \in Urls \cup {NoUrl} : Connect(server_url)
    \/ Enter
    \/ ExitEarly
    \/ \E e \in Exiters : ExitCall(e)
    \/ \E e \in Exiters : ExitResume(e)
    \/ \E method_name \in {NoName, "get_thing"}, transform \in BOOLEAN :
           CallRefused(method_name, transform)
    \/ \E k \in Callers, method_name \in {NoName, "get_thing"},
          transform \in BOOLEAN : CallStub(k, method_name, transform)
    \/ \E k \in Callers : CallReturn(k)

SpecClient == InitClient /\ [][NextClient]_vars

\* ------------------------------------------------------------- properties
\* the pump tasks that are not done
LivePumps == {t \in DOMAIN tasks : tasks[t].st # "done"}

\* C1: in every reachable state at most one pump task is live (not done),
\* whatever start(), stop(), new_receiver() calls and pump steps happened.
C1_AtMostOneLivePump == Cardinality(LivePumps) <= 1

\* a second pump was spawned after the first one was done, and is live
C1_Witness ==
    /\ Len(tasks) >= 2
    /\ tasks[1].st = "done"
    /\ tasks[2].st \in {"next", "send", "sleep"}

\* C2: whenever the current channel is closed no pump is live (equivalently,
\* a live pump implies that the current channel is not closed).
C2_ClosedChannelHasNoLivePump == chans[channel].closed => LivePumps = {}

\* C3: in the state in which a stop() call has just returned the current
\* channel is closed, and while the current channel is closed no receiver
\* gets a further message into its buffer.
C3_StopLeavesChannelClosed ==
    /\ [](last.op = "stop" => chans[channel].closed)
    /\ [][chans[channel].closed =>
            \A r \in DOMAIN receivers :
                Len(receivers'[r].q) <= Len(receivers[r].q)]_vars

\* C4: in the state in which new_receiver() has just returned, the channel
\* of the receiver it returned is not closed.
C4_ReceiverOpenAtReturn ==
    last.op = "new_receiver" => ~chans[receivers[last.recv].chan].closed

\* C5: a new_receiver() call made while the current channel is closed calls
\* start() exactly once, which resets the strategy, creates a new channel and
\* spawns a new pump, and the receiver is bound to the new channel; a call
\* made while the channel is not closed does not call start().
C5_NewReceiverRestartsClosedStream ==
    [][Len(receivers') = Len(receivers) + 1 =>
        IF chans[channel].closed
        THEN /\ last'.startCalls = 1
             /\ Len(tasks') = Len(tasks) + 1
             /\ Len(chans') = Len(chans) + 1
             /\ task' = Len(tasks')
             /\ channel' = Len(chans')
             /\ tasks'[task'].st = "created"
             /\ ~chans'[channel'].closed
             /\ strategy'.count = 0
             /\ receivers'[Len(receivers')].chan = channel'
        ELSE /\ last'.startCalls = 0
             /\ UNCHANGED <<task, channel, tasks, chans, strategy, run>>
             /\ receivers'[Len(receivers')].chan = channel]_vars

\* entry i of the log has as index the number of earlier entries of its attempt
InProductionOrder(log) ==
    \A i \in DOMAIN log :
        log[i].idx = Cardinality({j \in 1..(i - 1) : log[j].att = log[i].att})

\* the messages of the current attempt that were broadcast on channel c
SentOfAttempt(c) ==
    Cardinality({i \in DOMAIN chans[c].sent : chans[c].sent[i].att = run.attempts})

\* C6: every receiver has observed (taken or buffered) exactly the messages
\* broadcast on its channel since it was created, in order and once each; the
\* messages are the transformed items of the attempts, all of them, in the
\* order produced; a receiver ends only on a closed channel, drained; and a
\* pump that gave up has closed the channel.
C6_FanOutInOrder ==
    /\ \A r \in DOMAIN receivers :
        LET log == chans[receivers[r].chan].sent
            seen == receivers[r].got \o receivers[r].q
        IN  /\ seen = SubSeq(log, receivers[r].from + 1, Len(log))
            /\ \A i \in DOMAIN seen : seen[i].transformed
            /\ receivers[r].ended =>
                   chans[receivers[r].chan].closed /\ receivers[r].q = <<>>
    /\ \A c \in DOMAIN chans : InProductionOrder(chans[c].sent)
    /\ \A t \in LivePumps :
        (tasks[t].st \in {"next", "send", "sleep"}
            /\ ~chans[tasks[t].sender].closed) =>
        SentOfAttempt(tasks[t].sender) =
            tasks[t].cur - (IF tasks[t].st = "send" THEN 1 ELSE 0)
    /\ tasks[task].outcome = "gaveup" => chans[channel].closed

\* two receivers created before the first item both took the two items of an
\* attempt and reached the end of the stream after the pump gave up
C6_Witness ==
    /\ Len(receivers) = 2
    /\ tasks[1].outcome = "gaveup"
    /\ \A r \in {1, 2} :
        /\ receivers[r].chan = 1
        /\ receivers[r].from = 0
        /\ receivers[r].ended
        /\ receivers[r].got =
               <<[run |-> 1, att |-> 1, idx |-> 0, transformed |-> TRUE],
                 [run |-> 1, att |-> 1, idx |-> 1, transformed |-> TRUE]>>

\* C7: with a strategy whose first next_interval() is terminal, a run makes
\* one attempt and one next_interval() call, never retries, and once it gave
\* up the channel is closed, the pump is done, and until a restart no further
\* attempt is made and no receiver gets a further message.
C7_ExhaustedStrategyClosesChannel ==
    /\ [](strategy.limit = 0 =>
            run.attempts <= 1 /\ run.calls <= 1 /\ run.retries = 0)
    /\ []((strategy.limit = 0 /\ tasks[task].outcome = "gaveup") =>
            /\ run.attempts = 1
            /\ run.calls = 1
            /\ run.giveups = 1
            /\ chans[channel].closed
            /\ tasks[task].st = "done")
    /\ [][(strategy.limit = 0 /\ tasks[task].outcome = "gaveup"
            /\ task' = task) =>
            /\ run' = run
            /\ chans' = chans
            /\ \A r \in DOMAIN receivers :
                Len(receivers'[r].q) <= Len(receivers[r].q)]_vars

\* the only attempt of a no-retry run ended, the pump gave up and a receiver
\* reached the end of the stream
C7_Witness ==
    /\ strategy.limit = 0
    /\ tasks[task].outcome = "gaveup"
    /\ run.attempts = 1
    /\ run.calls = 1
    /\ \E r \in DOMAIN receivers : receivers[r].chan = channel /\ receivers[r].ended

\* C8: a pump that gave up under a strategy yielding k delays made k+1
\* attempts and k+1 next_interval() calls and logged k retries (zero delays
\* included) and then one give-up; the channel is closed only by that
\* give-up or by a stop().
C8_RetryComposition ==
    /\ [](tasks[task].outcome = "gaveup" =>
            /\ run.attempts = strategy.limit + 1
            /\ run.calls = strategy.limit + 1
            /\ run.retries = strategy.limit
            /\ run.giveups = 1)
    /\ [](/\ run.giveups = (IF tasks[task].outcome = "gaveup" THEN 1 ELSE 0)
          /\ run.calls = run.retries + run.giveups
          /\ Len(run.delays) = run.retries
          /\ \A i \in DOMAIN run.delays : run.delays[i] \in Intervals)
    /\ [][(channel' = channel /\ ~chans[channel].closed
            /\ chans'[channel].closed) =>
            \/ /\ run'.giveups = 1
               /\ run'.retries = strategy.limit
               /\ run'.attempts = strategy.limit + 1
            \/ \E s \in Stoppers :
                stoppers[s].pc = "await" /\ stoppers'[s].pc = "idle"]_vars

\* the strategy yielded (0, None): an immediate retry, then the give-up
C8_Witness ==
    /\ strategy.limit = 1
    /\ tasks[task].outcome = "gaveup"
    /\ run.attempts = 2
    /\ run.calls = 2
    /\ run.retries = 1
    /\ run.delays = <<0>>
    /\ run.giveups = 1
    /\ chans[channel].closed

\* C9: while a stop() that found the pump sleeping awaits the task, the pump
\* makes no further next_interval() call and no further attempt and ends
\* cancelled; when that stop() returns it did not raise and the current
\* channel is closed.
C9_StopWhileSleeping ==
    /\ [](\A s \in Stoppers :
            (stoppers[s].pc = "await" /\ stoppers[s].at = "sleep") =>
            /\ tasks[stoppers[s].awaiting].st \in {"sleep", "done"}
            /\ tasks[stoppers[s].awaiting].st = "done" =>
                   tasks[stoppers[s].awaiting].outcome = "cancelled"
            /\ task = stoppers[s].awaiting =>
                   /\ run.calls = stoppers[s].calls
                   /\ run.attempts = stoppers[s].attempts)
    /\ [][\A s \in Stoppers :
            (stoppers[s].pc = "await" /\ stoppers[s].at = "sleep"
                /\ stoppers'[s].pc = "idle") =>
            /\ last'.op = "stop"
            /\ ~last'.raised
            /\ chans'[channel'].closed]_vars

\* a stop() that cancelled the pump during its first sleep has returned
C9_Witness ==
    /\ last.op = "stop"
    /\ Len(tasks) = 1
    /\ tasks[1].outcome = "cancelled"
    /\ run.attempts = 1
    /\ run.calls = 1
    /\ run.retries = 1
    /\ chans[channel].closed

\* C10: a start() call made while the pump task is not done changes nothing:
\* strategy, channel, channels, tasks and receivers stay as they were.
C10_StartWhileRunningIsNoOp ==
    [][(last'.op = "start" /\ tasks[task].st # "done") =>
        UNCHANGED <<task, channel, tasks, chans, strategy, receivers,
                    stoppers, run>>]_vars

\* start() has just returned while the first pump sleeps between attempts,
\* with a receiver bound to the channel
C10_Witness ==
    /\ last.op = "start"
    /\ Len(tasks) = 1
    /\ tasks[1].st = "sleep"
    /\ strategy.count = 1
    /\ Len(receivers) >= 1
    /\ receivers[1].chan = channel

\* a step in which some activity calls stop(): the call returns at once, or
\* it cancels the task and suspends
StopIsCalled ==
    \/ last'.op = "stop" /\ stoppers' = stoppers
    \/ \E s \in Stoppers : stoppers[s].pc = "idle" /\ stoppers'[s].pc = "await"

\* C11: a stop() call made while no pump is running (the task is done: it was
\* stopped before, or it gave up) returns at once, cancels nothing, closes
\* nothing and leaves task, channel, channels, strategy and receivers as
\* they were.
C11_StopWithoutPumpIsNoOp ==
    [][(TaskDone(Cur, task) /\ StopIsCalled) =>
        /\ last'.op = "stop"
        /\ ~last'.raised
        /\ UNCHANGED <<task, channel, tasks, chans, strategy, receivers,
                       stoppers, run>>]_vars

\* stop() has just returned on the first pump, which had given up and closed
\* the channel by itself
C11_Witness ==
    /\ last.op = "stop"
    /\ Len(tasks) = 1
    /\ tasks[1].outcome = "gaveup"
    /\ chans[channel].closed

\* C12: an AioRpcError raised by the stream at any point of an attempt is
\* handled inside the pump: the strategy is consulted and the pump either
\* sleeps for a retry or closes the channel and ends as "gave up"; the task
\* never ends with that error, and a receiver's only terminal event is the
\* end of a closed, drained channel.
C12_StreamErrorsStayInPump ==
    /\ [](\A t \in DOMAIN tasks :
            tasks[t].error =>
                tasks[t].st = "sleep" /\ run.retries >= 1 /\ strategy.count >= 1)
    /\ [](run.failed =>
            /\ tasks[task].outcome = "gaveup"
            /\ chans[channel].closed
            /\ strategy.count = strategy.limit + 1)
    /\ [](\A r \in DOMAIN receivers :
            receivers[r].ended =>
                chans[receivers[r].chan].closed /\ receivers[r].q = <<>>)
    /\ [][\A t \in DOMAIN tasks :
            (tasks[t].outcome = "none" /\ tasks'[t].outcome = "crashed") =>
            /\ tasks[t].st \in {"next", "send"}
            /\ chans[tasks[t].sender].closed
            /\ UNCHANGED <<chans, strategy, run, receivers>>]_vars

\* the first attempt failed after one item and was retried after a delay,
\* the second failed at once and the pump gave up; a receiver took the item
\* and reached the end of the stream
C12_Witness ==
    /\ strategy.limit = 1
    /\ run.failed
    /\ run.delays = <<3>>
    /\ tasks[task].outcome = "gaveup"
    /\ Len(chans[channel].sent) = 1
    /\ \E r \in DOMAIN receivers :
        /\ receivers[r].ended
        /\ Len(receivers[r].got) = 1
        /\ receivers[r].got[1].att = 1

\* C13: reset() is called once by every start() that spawns a pump (the
\* constructor's and the one made by new_receiver() included) and at no
\* other time: the strategy's counter is zero when a run begins and from
\* then on equals the number of next_interval() calls of the run, whether or
\* not the attempts delivered items.
C13_ResetOncePerRun ==
    /\ [](run.resets = 1 /\ strategy.count = run.calls)
    /\ [][Len(tasks') = Len(tasks) + 1 =>
            strategy'.count = 0 /\ run'.resets = 1 /\ run'.calls = 0]_vars
    /\ [][Len(tasks') = Len(tasks) =>
            /\ run'.resets = run.resets
            /\ strategy'.count \in {strategy.count, strategy.count + 1}]_vars

\* the first run used up the strategy; new_receiver() started a second run,
\* whose first attempt delivered an item and was followed by a retry: the
\* counter is 1, not reset by the delivery and not carried over
C13_Witness ==
    /\ Len(tasks) = 2
    /\ tasks[1].outcome = "gaveup"
    /\ strategy.limit = 1
    /\ strategy.count = 1
    /\ run.attempts = 2
    /\ tasks[2].st = "next"
    /\ Len(chans[2].sent) = 1
    /\ chans[2].sent[1].att = 1
    /\ \E r \in DOMAIN receivers : receivers[r].chan = 2

\* the strategy object of user u: the prototype for its owner
StrategyOf(u) == objects[IF u = 0 THEN Prototype ELSE owned[u]]

\* the users that have a strategy
Constructed == {u \in Users : u = 0 \/ owned[u] # 0}

\* C14: every broadcaster built from the prototype keeps a strategy object
\* of its own, with the prototype's configuration: the counter of each
\* object (the prototype's included) equals the number of next_interval()
\* calls made by its own user since that user's last reset(), whatever the
\* other users did.
C14_StrategyCopiesAreIndependent ==
    /\ \A u \in Constructed, v \in Constructed :
        (u # v /\ u # 0) => owned[u] # Prototype /\ (v # 0 => owned[u] # owned[v])
    /\ \A u \in Constructed :
        /\ StrategyOf(u).count = consulted[u]
        /\ StrategyOf(u).limit = objects[Prototype].limit

\* broadcaster 1 has used up its budget of one retry while broadcaster 2,
\* built from the same prototype, has its whole budget left and the
\* prototype was consulted once by its owner
C14_Witness ==
    /\ owned[1] # 0
    /\ owned[2] # 0
    /\ objects[Prototype] = [limit |-> 1, count |-> 1]
    /\ objects[owned[1]].count = 2
    /\ objects[owned[2]].count = 0

\* a step in which some activity calls call_stub_method(): the call raises
\* at once, or it suspends on the stub method
CallIsMade ==
    \/ result'.op = "call" /\ callers' = callers
    \/ \E k \in Callers : callers[k].pc = "idle" /\ callers'[k].pc = "await"

\* C15: a call_stub_method() call made while the client is not connected
\* raises ClientNotConnected at once, with the client's server URL and the
\* operation name (method_name, or the calling function's name when it is
\* None); the stub method is not invoked and nothing is changed.
C15_NotConnectedCallIsRefused ==
    [][(~is_connected(client) /\ CallIsMade) =>
        /\ result'.op = "call"
        /\ result'.error.kind = "ClientNotConnected"
        /\ result'.error.server_url = client.server_url
        /\ result'.error.operation =
               (IF result'.arg = NoName THEN CallingFunction ELSE result'.arg)
        /\ result'.invoked = 0
        /\ result'.value = NoValue
        /\ UNCHANGED <<client, grpc, exiters, callers>>]_vars

\* a client that was connected to a second server and then disconnected has
\* just refused a call made without method_name
C15_Witness ==
    /\ result.op = "call"
    /\ result.arg = NoName
    /\ result.error = ClientNotConnected("grpc://b", CallingFunction)
    /\ client.channel = 0
    /\ Len(grpc) >= 1
    /\ grpc[Len(grpc)].closed

\* C16: a call_stub_method() call on a connected client invokes the stub
\* method once and awaits it; when the stub method raises AioRpcError the
\* call raises the error built by from_grpc_error (not ClientNotConnected)
\* with the client's server URL, the operation name and the status code, and
\* no value is produced; when it succeeds the call returns the response,
\* transformed exactly when a transform was given.
C16_ConnectedCallTranslatesErrors ==
    /\ []((result.op = "call" /\ result.error.kind # "ClientNotConnected") =>
            /\ result.invoked = 1
            /\ \/ /\ result.error = NoError
                  /\ result.value = [value |-> Response.value,
                                      transformed |-> result.transform]
               \/ /\ result.error.kind = "GrpcError"
                  /\ result.error.server_url = client.server_url
                  /\ result.error.operation =
                         (IF result.arg = NoName THEN CallingFunction
                          ELSE result.arg)
                  /\ result.error.code \in Codes
                  /\ result.value = NoValue)
    /\ [][\A k \in Callers :
            (callers[k].pc = "idle" /\ callers'[k].pc = "await") =>
                is_connected(client) /\ UNCHANGED <<client, grpc>>]_vars
    /\ [][\A k \in Callers :
            (callers[k].pc = "await" /\ callers'[k].pc = "idle") =>
                /\ result'.op = "call"
                /\ result'.invoked = 1
                /\ result'.arg = callers[k].arg
                /\ result'.transform = callers[k].transform]_vars

\* a call named "get_thing" with a transform, made on the connected client,
\* has just failed with UNAVAILABLE
C16_Witness ==
    /\ result.op = "call"
    /\ result.transform
    /\ result.error = from_grpc_error("grpc://a", "get_thing", "UNAVAILABLE")
    /\ result.value = NoValue
    /\ is_connected(client)

\* C17: connect() (or __aenter__) on a connected client, with no URL or with
\* the URL the client has, changes nothing: server URL, channel, stub and
\* the channels created stay as they were; disconnect() on a client that is
\* not connected returns at once and changes nothing either.
C17_RedundantConnectIsNoOp ==
    /\ [][(result'.op \in {"connect", "aenter"} /\ is_connected(client)
            /\ result'.arg \in {NoUrl, client.server_url}) =>
            UNCHANGED <<client, grpc, exiters, callers>>]_vars
    /\ [][(result'.op = "disconnect" /\ ~is_connected(client)
            /\ exiters' = exiters) =>
            UNCHANGED <<client, grpc, exiters, callers>>]_vars

\* connect() with the client's own URL has just returned on the client that
\* was connected by its constructor: still the first channel, still open
C17_Witness ==
    /\ result.op = "connect"
    /\ result.arg = client.server_url
    /\ client.channel = 1
    /\ client.stub = 1
    /\ Len(grpc) = 1
    /\ ~grpc[1].closed

\* C18: stop() closes the channel only in a step taken after the task it
\* cancelled is done (ended by the cancellation); the only step of a pump
\* whose cancellation was requested is its termination, which closes no
\* channel and sends nothing; a channel is closed only by a resumed stop()
\* or by a pump, not cancelled, that gives up; no message is broadcast on a
\* closed channel.
C18_StopClosesAfterPumpEnded ==
    /\ [][\A s \in Stoppers :
            (stoppers[s].pc = "await" /\ stoppers'[s].pc = "idle") =>
            /\ tasks[stoppers[s].awaiting].st = "done"
            /\ tasks[stoppers[s].awaiting].outcome = "cancelled"]_vars
    /\ [][\A t \in DOMAIN tasks :
            (tasks[t].cancel /\ tasks'[t] # tasks[t]) =>
            /\ tasks'[t].outcome = "cancelled"
            /\ UNCHANGED <<chans, channel, receivers, strategy, run>>]_vars
    /\ [][\A c \in DOMAIN chans :
            (~chans[c].closed /\ chans'[c].closed) =>
            \/ \E s \in Stoppers :
                  stoppers[s].pc = "await" /\ stoppers'[s].pc = "idle"
            \/ /\ c = channel
               /\ tasks[task].st = "next"
               /\ ~tasks[task].cancel
               /\ tasks'[task].outcome = "gaveup"
               /\ strategy'.count = strategy.limit + 1]_vars
    /\ [][\A c \in DOMAIN chans :
            chans[c].closed => chans'[c].sent = chans[c].sent]_vars

\* stop() has just returned after cancelling the first pump in the middle of
\* an attempt that had delivered an item: the pump ended cancelled without
\* consulting the strategy, and the channel is closed
C18_Witness ==
    /\ last.op = "stop"
    /\ Len(tasks) = 1
    /\ tasks[1].outcome = "cancelled"
    /\ run.calls = 0
    /\ Len(chans[1].sent) = 1
    /\ chans[1].closed

\* C19: start() creates task and channel together (the n-th task goes with
\* the n-th channel); a pump sends only to the channel of its own start(),
\* and when it gives up it closes that channel and no other; every message
\* on a channel, and so every message a receiver of that channel has taken
\* or buffered, was produced by the run of that channel; a receiver ends
\* only when its own channel is closed.
C19_PumpBoundToItsOwnChannel ==
    /\ [](/\ Len(tasks) = Len(chans)
          /\ task = channel
          /\ \A t \in DOMAIN tasks : tasks[t].sender \in {0, t}
          /\ \A c \in DOMAIN chans :
                \A i \in DOMAIN chans[c].sent : chans[c].sent[i].run = c
          /\ \A r \in DOMAIN receivers :
                /\ \A i \in DOMAIN receivers[r].got :
                      receivers[r].got[i].run = receivers[r].chan
                /\ \A i \in DOMAIN receivers[r].q :
                      receivers[r].q[i].run = receivers[r].chan
                /\ receivers[r].ended => chans[receivers[r].chan].closed)
    /\ [][\A t \in DOMAIN tasks :
            (tasks[t].outcome = "none" /\ tasks'[t].outcome = "gaveup") =>
            /\ chans'[t].closed
            /\ \A c \in DOMAIN chans : c # t => chans'[c] = chans[c]]_vars
    /\ [][\A r \in DOMAIN receivers :
            receivers'[r].chan = receivers[r].chan]_vars

\* the first run delivered an item to a receiver and gave up; a second run,
\* started by new_receiver(), delivered an item to the new receiver and gave
\* up too: each receiver took the item of its own run and reached the end
C19_Witness ==
    /\ Len(tasks) = 2
    /\ tasks[1].outcome = "gaveup"
    /\ tasks[2].outcome = "gaveup"
    /\ Len(receivers) = 2
    /\ \A r \in {1, 2} :
        /\ receivers[r].chan = r
        /\ receivers[r].ended
        /\ Len(receivers[r].got) = 1
        /\ receivers[r].got[1].run = r

\* entry i of the log comes before entry j in production: earlier attempt,
\* or same attempt and earlier position
AttemptsInOrder(log) ==
    \A i \in DOMAIN log, j \in DOMAIN log :
        i < j => \/ log[i].att < log[j].att
                 \/ log[i].att = log[j].att /\ log[i].idx < log[j].idx

\* C20: a next_interval() call that does not exhaust the strategy is
\* followed by a sleep and a new attempt on the same channel: neither that
\* step nor the wake-up closes or replaces a channel or touches a receiver,
\* and the pump keeps its sender; every message broadcast reaches, in the
\* same step, the buffer of every receiver of the channel; what a receiver
\* has taken and buffered is ordered by attempt, and by production order
\* inside an attempt.
C20_RetryKeepsChannelAndOrder ==
    /\ [][(strategy'.count = strategy.count + 1
            /\ strategy'.count <= strategy.limit) =>
            /\ UNCHANGED <<task, channel, chans, receivers>>
            /\ tasks'[task].st = "sleep"
            /\ tasks'[task].sender = tasks[task].sender
            /\ run'.retries = run.retries + 1]_vars
    /\ [][\A t \in DOMAIN tasks :
            (tasks[t].st = "sleep" /\ tasks'[t].st = "next") =>
            /\ UNCHANGED <<task, channel, chans, receivers>>
            /\ tasks'[t].sender = tasks[t].sender
            /\ run'.attempts = run.attempts + 1]_vars
    /\ [][\A r \in DOMAIN receivers :
            LET c == receivers[r].chan
            IN  Len(chans'[c].sent) = Len(chans[c].sent) + 1 =>
                    receivers'[r].q =
                        Append(receivers[r].q,
                               chans'[c].sent[Len(chans'[c].sent)])]_vars
    /\ [](\A c \in DOMAIN chans : AttemptsInOrder(chans[c].sent))
    /\ [](\A r \in DOMAIN receivers :
            AttemptsInOrder(receivers[r].got \o receivers[r].q))

\* a receiver created before the first item took the item of the first
\* attempt and, after a retry, the item of the second attempt, in that
\* order, on the channel of the constructor's start()
C20_Witness ==
    /\ Len(chans) = 1
    /\ ~chans[1].closed
    /\ run.retries = 1
    /\ \E r \in DOMAIN receivers :
        /\ receivers[r].chan = 1
        /\ receivers[r].from = 0
        /\ receivers[r].got =
               <<[run |-> 1, att |-> 1, idx |-> 0, transformed |-> TRUE],
                 [run |-> 1, att |-> 2, idx |-> 0, transformed |-> TRUE]>>

\* C21: a stop() call that cancelled the pump and suspended eventually
\* returns, whatever the pump was doing when it was cancelled (not yet run,
\* awaiting the next item, suspended in send, sleeping); when it returns
\* the task it awaited is done, ended by the cancellation, and the call did
\* not raise.
C21_StopEventuallyReturns ==
    /\ \A s \in Stoppers :
           (stoppers[s].pc = "await") ~> (stoppers[s].pc = "idle")
    /\ [](\A s \in Stoppers :
            stoppers[s].pc = "await" =>
                stoppers[s].at \in {"created", "next", "send", "sleep"})
    /\ [][\A s \in Stoppers :
            (stoppers[s].pc = "await" /\ stoppers'[s].pc = "idle") =>
            /\ last'.op = "stop"
            /\ ~last'.raised
            /\ tasks'[stoppers[s].awaiting].st = "done"
            /\ tasks'[stoppers[s].awaiting].outcome = "cancelled"]_vars

\* a stop() that found the pump suspended in send (a receiver's buffer is
\* full) is awaiting the task, which has ended cancelled
C21_Witness ==
    \E s \in Stoppers :
        /\ stoppers[s].pc = "await"
        /\ stoppers[s].at = "send"
        /\ tasks[stoppers[s].awaiting].outcome = "cancelled"
        /\ \E r \in DOMAIN receivers :
              Len(receivers[r].q) = receivers[r].limit

\* C22: every step that replaces the current channel finds the replaced
\* channel closed, so every receiver of a channel that is no longer the
\* current one is on a closed channel.
C22_ReplacedChannelIsClosed ==
    /\ [][channel' # channel => chans[channel].closed]_vars
    /\ [](\A r \in DOMAIN receivers :
            receivers[r].chan # channel => chans[receivers[r].chan].closed)

\* stop() was called at some time: a cancellation was requested or served
StopCalled ==
    \E t \in DOMAIN tasks : tasks[t].cancel \/ tasks[t].outcome = "cancelled"

\* C23: with a finite retry limit, attempts that all come to an end and
\* consumers that keep taking messages, and as long as stop() is not
\* called: the current pump eventually has given up with the current
\* channel closed, and every receiver eventually reaches the end of its
\* stream.
C23_FiniteBudgetEventuallyCloses ==
    /\ (~StopCalled) ~>
           (StopCalled \/ (/\ tasks[task].outcome = "gaveup"
                           /\ chans[channel].closed
                           /\ strategy.count = strategy.limit + 1))
    /\ \A r \in 1..MaxReceivers :
           (r \in DOMAIN receivers) ~>
               (StopCalled \/ (r \in DOMAIN receivers /\ receivers[r].ended))

\* no stop() was ever called: the pump used up its one retry and gave up,
\* and both receivers reached the end of the stream
C23_Witness ==
    /\ ~StopCalled
    /\ Len(tasks) = 1
    /\ strategy.limit = 1
    /\ tasks[1].outcome = "gaveup"
    /\ chans[1].closed
    /\ Len(receivers) = 2
    /\ \A r \in {1, 2} : receivers[r].ended

\* C24: in every state the client has a channel exactly when it has a stub
\* (and the stub is the one made for that channel), and a disconnect() that
\* returns after awaiting the close clears the channel it closed: the
\* client's channel at that time is still the one whose close it awaited.
C24_DisconnectClearsWhatItClosed ==
    /\ []((client.channel = 0) <=> (client.stub = 0))
    /\ [](client.channel # 0 => client.stub = create_stub(client.channel))
    /\ [][\A e \in Exiters :
            (exiters[e].pc = "await" /\ exiters'[e].pc = "idle") =>
            /\ client.channel = exiters[e].chan
            /\ grpc[client.channel].closed]_vars
====
